---- MODULE Spec2Model ----
(***************************************************************************)
(* Sentinel-2 spectral-index export script                                 *)
(* (src/GEE/Sentinel2SpectralIndicesExport.js).                            *)
(*                                                                         *)
(* The script is one synchronous client-side run: it walks stateNames,     *)
(* splits two of the states, and for every region, year and index builds   *)
(* a lazy image and submits one Export.image.toDrive task.  Strings are    *)
(* sequences of one-character strings, ee.Number values are exact          *)
(* fractions <<numerator, denominator>>, instants are counted in half      *)
(* days since 2016-01-01T00:00 (every instant the script computes from an  *)
(* integer day count and windowSize / 2 is a whole number of half days),   *)
(* and a geometry is the set of grid points it covers.                     *)
(***************************************************************************)
EXTENDS Integers, Sequences, FiniteSets

VARIABLES
    pc,          \* position of the run: "state", "region", "year", "index", "done", "aborted"
    si,          \* index into stateNames of the forEach callback in progress
    pending,     \* processRegion calls the current callback still has to make
    region,      \* arguments of the processRegion call in progress
    yi,          \* index into the fetched year list
    ii,          \* index into spectralIndices
    job,         \* the lazy composite of the year in progress (year, startDate, endDate)
    exports,     \* Export.image.toDrive submissions, in order
    blocking,    \* synchronous getInfo() round trips, in order
    layers,      \* Map.addLayer calls made by processRegion, in order
    err,         \* the exception that ended the run, or "none"
    archive,     \* scenes of COPERNICUS/S2_HARMONIZED
    query,       \* region geometry and year of the last archive query
    collection,  \* the ImageCollection handed to computeRollingMean
    windowSize,  \* windowSize argument of computeRollingMean
    smoothed,    \* result of computeRollingMean, or <<>> before the call
    windows,     \* the `window` collection built for each mapped image
    called       \* whether computeRollingMean has been called

runVars  == <<pc, si, pending, region, yi, ii, job, exports, blocking, layers, err>>
dataVars == <<archive, query, collection, windowSize, smoothed, windows, called>>
vars     == <<pc, si, pending, region, yi, ii, job, exports, blocking, layers, err,
              archive, query, collection, windowSize, smoothed, windows, called>>

----------------------------------------------------------------------------
(* Strings *)

Connecticut   == <<"C","o","n","n","e","c","t","i","c","u","t">>
Maine         == <<"M","a","i","n","e">>
Massachusetts == <<"M","a","s","s","a","c","h","u","s","e","t","t","s">>
NewHampshire  == <<"N","e","w"," ","H","a","m","p","s","h","i","r","e">>
RhodeIsland   == <<"R","h","o","d","e"," ","I","s","l","a","n","d">>
Vermont       == <<"V","e","r","m","o","n","t">>
NewYork       == <<"N","e","w"," ","Y","o","r","k">>
NewJersey     == <<"N","e","w"," ","J","e","r","s","e","y">>
New_York_West == <<"N","e","w","_","Y","o","r","k","_","W","e","s","t">>
New_York_East == <<"N","e","w","_","Y","o","r","k","_","E","a","s","t">>
Maine_South   == <<"M","a","i","n","e","_","S","o","u","t","h">>
Maine_North   == <<"M","a","i","n","e","_","N","o","r","t","h">>
Indices_      == <<"I","n","d","i","c","e","s","_">>

\* var stateNames = [...]
stateNames ==
    <<Connecticut, Maine, Massachusetts, NewHampshire, RhodeIsland, Vermont, NewYork>>

\* var spectralIndices = [...]
spectralIndices ==
    << <<"N","D","V","I">>, <<"E","V","I">>, <<"S","A","V","I">>, <<"N","D","W","I">>,
       <<"B","S","I">>, <<"N","D","B","I">>, <<"M","N","D","W","I">>, <<"N","B","R">> >>

\* ee.List.sequence(2016, 2024), and what years.getInfo() returns
years == [i \in 1..9 |-> 2015 + i]

Range(s) == {s[i] : i \in 1..Len(s)}

\* Number-to-string conversion of the `+` operator on a non-negative integer
RECURSIVE NumberToString(_)
NumberToString(n) ==
    LET digit == <<"0","1","2","3","4","5","6","7","8","9">>[(n % 10) + 1]
    IN  IF n < 10 THEN <<digit>> ELSE NumberToString(n \div 10) \o <<digit>>

\* String.prototype.replace with a one-character string pattern: only the first
\* occurrence of the pattern is replaced
Replace(s, pattern, replacement) ==
    LET hits == {i \in 1..Len(s) : s[i] = pattern}
    IN  IF hits = {} THEN s
        ELSE LET first == CHOOSE i \in hits : \A j \in hits : i <= j
             IN  [i \in 1..Len(s) |-> IF i = first THEN replacement ELSE s[i]]

\* Variant of Description that leaves the index out of the label
DescriptionNoIndex(index, regionName, yearInfo) ==
    Indices_ \o Replace(regionName, " ", "_") \o <<"_">> \o NumberToString(yearInfo)

\* description: 'Indices_' + index + '_' + regionName.replace(' ', '_') + '_' + year.getInfo()
Description(index, regionName, yearInfo) ==
    Indices_ \o index \o <<"_">> \o Replace(regionName, " ", "_") \o <<"_">>
        \o NumberToString(yearInfo)

----------------------------------------------------------------------------
(* ee.Number: exact fractions <<numerator, denominator>>, denominator > 0 *)

Number(n)      == <<n, 1>>
add(a, b)      == <<a[1] * b[2] + b[1] * a[2], a[2] * b[2]>>
divide(a, n)   == <<a[1], a[2] * n>>
multiply(a, n) == <<a[1] * n, a[2]>>
Leq(a, b)      == a[1] * b[2] <= b[1] * a[2]

----------------------------------------------------------------------------
(* Geometry: a geometry is the set of grid points <<lon, lat>> it covers *)

\* ee.FeatureCollection('TIGER/2018/States')
states ==
    << [NAME |-> Connecticut,   geometry |-> {<<8, 1>>, <<9, 1>>}],
       [NAME |-> Maine,         geometry |-> {<<12, 5>>, <<12, 6>>, <<13, 6>>, <<12, 7>>,
                                              <<13, 8>>, <<12, 9>>}],
       [NAME |-> Massachusetts, geometry |-> {<<8, 2>>, <<9, 2>>, <<10, 2>>}],
       [NAME |-> NewHampshire,  geometry |-> {<<10, 3>>, <<10, 4>>, <<10, 5>>}],
       [NAME |-> NewJersey,     geometry |-> {<<6, 0>>, <<6, 1>>}],
       [NAME |-> RhodeIsland,   geometry |-> {<<10, 1>>}],
       [NAME |-> Vermont,       geometry |-> {<<9, 3>>, <<9, 4>>, <<8, 4>>}],
       [NAME |-> NewYork,       geometry |-> {<<1, 3>>, <<2, 3>>, <<3, 3>>, <<4, 3>>,
                                              <<5, 4>>, <<6, 2>>, <<7, 1>>}] >>

\* states.filter(ee.Filter.inList('NAME', stateNames))
northeastStates == SelectSeq(states, LAMBDA f : f.NAME \in Range(stateNames))

\* FeatureCollection.geometry(): the union of the features' geometries
geometry(fc) == UNION {fc[i].geometry : i \in 1..Len(fc)}

Min(S) == CHOOSE a \in S : \A b \in S : a <= b
Max(S) == CHOOSE a \in S : \A b \in S : a >= b

\* roi.bounds().coordinates().get(0): the ring of the bounding box, from its
\* lower-left corner counter-clockwise
boundsRing(roi) ==
    LET x0 == Min({p[1] : p \in roi})
        x1 == Max({p[1] : p \in roi})
        y0 == Min({p[2] : p \in roi})
        y1 == Max({p[2] : p \in roi})
    IN  << <<x0, y0>>, <<x1, y0>>, <<x1, y1>>, <<x0, y1>>, <<x0, y0>> >>

\* ee.Geometry.Rectangle([west, south, east, north]) over ee.Number coordinates
Rectangle(c) == [west |-> c[1], south |-> c[2], east |-> c[3], north |-> c[4]]

\* roi.intersection(rectangle, errorMargin): the rectangle is closed
intersection(roi, rect) ==
    {p \in roi : /\ Leq(rect.west, Number(p[1])) /\ Leq(Number(p[1]), rect.east)
                 /\ Leq(rect.south, Number(p[2])) /\ Leq(Number(p[2]), rect.north)}

\* The members of the ee namespace the split step calls
eeNamespace == {"Number", "List", "Geometry", "Filter", "ErrorMargin"}

----------------------------------------------------------------------------
(* Section 5 of the script: one forEach callback per state *)

smoothingWindow == 20

\* Variant of getInfoCalls in which the split step fetches the coordinates
getInfoCallsSplitFetch(step) ==
    CASE step = "split"         -> <<"coords.getInfo">>
      [] step = "processRegion" -> <<"years.getInfo">>
      [] step = "year"          -> <<>>
      [] step = "export"        -> <<"year.getInfo">>

\* The synchronous getInfo() round trips each step of the script makes.  The
\* split step reads the bounding box through ee.List / ee.Number objects only.
getInfoCalls(step) ==
    CASE step = "split"         -> <<>>
      [] step = "processRegion" -> <<"years.getInfo">>
      [] step = "year"          -> <<>>
      [] step = "export"        -> <<"year.getInfo">>

Logged(calls, at) == [i \in 1..Len(calls) |-> [call |-> calls[i], at |-> at]]

Region(geom, name) == [geometry |-> geom, name |-> name]

\* Body of the stateNames.forEach callback up to its processRegion calls: the
\* calls it goes on to make, or the exception that a statement before them
\* throws.  Calling a member that the ee namespace does not define
\* (ee.ErrorMargi) is a TypeError.
splitState(stateName) ==
    LET state  == SelectSeq(northeastStates, LAMBDA f : f.NAME = stateName)
        roi    == geometry(state)
        coords == boundsRing(roi)
        xmin   == Number(coords[1][1])
        ymin   == Number(coords[1][2])
        xmax   == Number(coords[3][1])
        ymax   == Number(coords[3][2])
        midLon == divide(add(xmin, xmax), 2)
        midLat == divide(add(ymin, ymax), 2)
        westRegion  == intersection(roi, Rectangle(<<xmin, ymin, midLon, ymax>>))
        eastRegion  == intersection(roi, Rectangle(<<midLon, ymin, xmax, ymax>>))
        southRegion == intersection(roi, Rectangle(<<xmin, ymin, xmax, midLat>>))
        northRegion == intersection(roi, Rectangle(<<xmin, midLat, xmax, ymax>>))
    IN  IF stateName = NewYork \/ stateName = Maine
        THEN IF stateName = NewYork
             THEN IF "ErrorMargi" \notin eeNamespace
                  THEN [error |-> "TypeError", calls |-> <<>>]
                  ELSE [error |-> "none",
                        calls |-> <<Region(westRegion, New_York_West),
                                    Region(eastRegion, New_York_East)>>]
             ELSE [error |-> "none",
                   calls |-> <<Region(southRegion, Maine_South),
                               Region(northRegion, Maine_North)>>]
        ELSE [error |-> "none", calls |-> <<Region(roi, stateName)>>]

NoRegion == Region({}, <<>>)
NoJob    == [year |-> 0, startDate |-> 0, endDate |-> 0, window |-> 0]

\* The forEach callback starts for stateNames[si] and runs to its first
\* processRegion call, or throws
StateStep ==
    /\ pc = "state"
    /\ LET plan == splitState(stateNames[si])
       IN  IF plan.error = "none"
           THEN /\ pending' = plan.calls
                /\ pc' = "region"
                /\ err' = err
           ELSE /\ pending' = pending
                /\ pc' = "aborted"
                /\ err' = plan.error
    /\ blocking' = IF stateNames[si] = NewYork \/ stateNames[si] = Maine
                   THEN blocking \o Logged(getInfoCalls("split"), pc)
                   ELSE blocking
    /\ UNCHANGED <<si, region, yi, ii, job, exports, layers>>
    /\ UNCHANGED dataVars

\* The callback returns; forEach moves to the next state or the script ends
StateReturn ==
    /\ pc = "region"
    /\ pending = <<>>
    /\ si' = si + 1
    /\ pc' = IF si < Len(stateNames) THEN "state" ELSE "done"
    /\ UNCHANGED <<pending, region, yi, ii, job, exports, blocking, layers, err>>
    /\ UNCHANGED dataVars

----------------------------------------------------------------------------
(* Dates and image collections.  An instant is a number of half days since *)
(* 2016-01-01T00:00; an image is [time, cloud, footprint, band].           *)

startMonth == 5
endMonth   == 10
cloudCeiling == 30

IsLeap(y) == (y % 4 = 0 /\ y % 100 # 0) \/ y % 400 = 0

DaysInMonth(y, m) ==
    IF m = 2 THEN (IF IsLeap(y) THEN 29 ELSE 28)
    ELSE IF m \in {4, 6, 9, 11} THEN 30 ELSE 31

RECURSIVE DaysBeforeMonth(_, _)
DaysBeforeMonth(y, m) ==
    IF m = 1 THEN 0 ELSE DaysBeforeMonth(y, m - 1) + DaysInMonth(y, m - 1)

RECURSIVE DaysBeforeYear(_)
DaysBeforeYear(y) ==
    IF y <= 2016 THEN 0
    ELSE DaysBeforeYear(y - 1) + (IF IsLeap(y - 1) THEN 366 ELSE 365)

\* ee.Date.fromYMD(year, month, day): midnight at the start of that day
fromYMD(y, m, d) == 2 * (DaysBeforeYear(y) + DaysBeforeMonth(y, m) + (d - 1))

\* date.advance(delta, 'day') for an ee.Number delta
advance(date, delta) == date + ((2 * delta[1]) \div delta[2])

\* Variant of filterDate that takes the end instant in
filterDateClosed(coll, start, end) ==
    SelectSeq(coll, LAMBDA image : start <= image.time /\ image.time <= end)

\* collection.filterDate(start, end): start inclusive, end exclusive
filterDate(coll, start, end) ==
    SelectSeq(coll, LAMBDA image : start <= image.time /\ image.time < end)

\* collection.filterBounds(geometry): the images whose footprint meets it
filterBounds(coll, geom) ==
    SelectSeq(coll, LAMBDA image : image.footprint \cap geom # {})

\* s2Collection of processRegion for one year.  cloudMaskS2H and
\* calculateIndices are mapped over the images and keep each image's date,
\* footprint and place in the collection.
s2Collection(images, regionGeometry, y) ==
    LET startDate == fromYMD(y, startMonth, 1)
        endDate   == fromYMD(y, endMonth, 31)
    IN  SelectSeq(filterDate(filterBounds(images, regionGeometry), startDate, endDate),
                  LAMBDA image : image.cloud < cloudCeiling)

----------------------------------------------------------------------------
(* computeRollingMean *)

RECURSIVE GCD(_, _)
GCD(a, b) == IF b = 0 THEN a ELSE GCD(b, a % b)

RECURSIVE SumBands(_)
SumBands(coll) == IF coll = <<>> THEN 0 ELSE Head(coll).band + SumBands(Tail(coll))

NoBands == <<>>

\* ImageCollection.mean(): the per-pixel mean of the images' bands, in lowest
\* terms; an image without bands for an empty collection.  The result carries
\* none of the inputs' properties.
mean(coll) ==
    IF coll = <<>> THEN [time |-> "none", band |-> NoBands]
    ELSE LET s == SumBands(coll)
             n == Len(coll)
             g == GCD(s, n)
         IN  [time |-> "none", band |-> <<s \div g, n \div g>>]

\* dest.copyProperties(source, ['system:time_start'])
copyProperties(dest, source) == [dest EXCEPT !.time = source.time]

\* Variant of halfWindowOf that divides as integers
halfWindowTruncated(size) == Number(size \div 2)

\* var halfWindow = ee.Number(windowSize).divide(2)
halfWindowOf(size) == divide(Number(size), 2)

\* Variant of windowOf that hands filterDate the two ends in the wrong order
windowOfSwapped(coll, image, size) ==
    LET halfWindow == halfWindowOf(size)
        date  == image.time
        start == advance(date, multiply(halfWindow, -1))
        end   == advance(date, halfWindow)
    IN  filterDate(coll, end, start)

\* The `window` collection the mapped function builds for one image
windowOf(coll, image, size) ==
    LET halfWindow == halfWindowOf(size)
        date  == image.time
        start == advance(date, multiply(halfWindow, -1))
        end   == advance(date, halfWindow)
    IN  filterDate(coll, start, end)

computeRollingMean(coll, size) ==
    [i \in 1..Len(coll) |->
        copyProperties(mean(windowOf(coll, coll[i], size)), coll[i])]

----------------------------------------------------------------------------
(* processRegion *)

\* processRegion is entered: Map.addLayer, then years.getInfo()
ProcessRegion ==
    /\ pc = "region"
    /\ pending # <<>>
    /\ region' = Head(pending)
    /\ pending' = Tail(pending)
    /\ layers' = Append(layers, Head(pending))
    /\ blocking' = blocking \o Logged(getInfoCalls("processRegion"), pc)
    /\ yi' = 1
    /\ pc' = "year"
    /\ UNCHANGED <<si, ii, job, exports, err>>
    /\ UNCHANGED dataVars

\* The year callback up to its index loop: the lazy composite of the year
YearStep ==
    /\ pc = "year"
    /\ yi <= Len(years)
    /\ job' = [year      |-> years[yi],
               startDate |-> fromYMD(years[yi], startMonth, 1),
               endDate   |-> fromYMD(years[yi], endMonth, 31),
               window    |-> smoothingWindow]
    /\ blocking' = blocking \o Logged(getInfoCalls("year"), pc)
    /\ ii' = 1
    /\ pc' = "index"
    /\ UNCHANGED <<si, pending, region, yi, exports, layers, err>>
    /\ UNCHANGED dataVars

\* One pass of spectralIndices.forEach: the description is built, with its
\* year.getInfo(), and the task is submitted
ExportIndex ==
    /\ pc = "index"
    /\ ii <= Len(spectralIndices)
    /\ blocking' = blocking \o Logged(getInfoCalls("export"), pc)
    /\ exports' = Append(exports,
           [region      |-> region.name,
            geometry    |-> region.geometry,
            year        |-> job.year,
            index       |-> spectralIndices[ii],
            description |-> Description(spectralIndices[ii], region.name, job.year)])
    /\ ii' = ii + 1
    /\ UNCHANGED <<pc, si, pending, region, yi, job, layers, err>>
    /\ UNCHANGED dataVars

\* The index loop of a year is over
YearReturn ==
    /\ pc = "index"
    /\ ii > Len(spectralIndices)
    /\ yi' = yi + 1
    /\ pc' = "year"
    /\ UNCHANGED <<si, pending, region, ii, job, exports, blocking, layers, err>>
    /\ UNCHANGED dataVars

\* The year loop is over: processRegion returns to the forEach callback
RegionReturn ==
    /\ pc = "year"
    /\ yi > Len(years)
    /\ pc' = "region"
    /\ UNCHANGED <<si, pending, region, yi, ii, job, exports, blocking, layers, err>>
    /\ UNCHANGED dataVars

\* years.getInfo() throws: nothing catches it and the script ends
YearsFetchFails ==
    /\ pc = "region"
    /\ pending # <<>>
    /\ region' = Head(pending)
    /\ pending' = Tail(pending)
    /\ layers' = Append(layers, Head(pending))
    /\ blocking' = blocking \o Logged(getInfoCalls("processRegion"), pc)
    /\ err' = "EEException"
    /\ pc' = "aborted"
    /\ UNCHANGED <<si, yi, ii, job, exports>>
    /\ UNCHANGED dataVars

\* year.getInfo() throws while a description is built
YearFetchFails ==
    /\ pc = "index"
    /\ ii <= Len(spectralIndices)
    /\ blocking' = blocking \o Logged(getInfoCalls("export"), pc)
    /\ err' = "EEException"
    /\ pc' = "aborted"
    /\ UNCHANGED <<si, pending, region, yi, ii, job, exports, layers>>
    /\ UNCHANGED dataVars

----------------------------------------------------------------------------
(* Specifications *)

MaxNameLen == 3
MaxArchive == 2
MaxScenes  == 2
MaxTime    == 3
MaxBand    == 2
MaxWindow  == 2

NoQuery == [geometry |-> {}, year |-> 0]

DataIdle ==
    /\ archive = <<>>
    /\ query = NoQuery
    /\ collection = <<>>
    /\ windowSize = smoothingWindow
    /\ smoothed = <<>>
    /\ windows = <<>>
    /\ called = FALSE

RunIdle ==
    /\ pc = "done"
    /\ si = Len(stateNames) + 1
    /\ pending = <<>>
    /\ region = NoRegion
    /\ yi = 1
    /\ ii = 1
    /\ job = NoJob
    /\ exports = <<>>
    /\ blocking = <<>>
    /\ layers = <<>>
    /\ err = "none"

\* The script as written, on an ee service that answers every getInfo()
Init ==
    /\ pc = "state"
    /\ si = 1
    /\ pending = <<>>
    /\ region = NoRegion
    /\ yi = 1
    /\ ii = 1
    /\ job = NoJob
    /\ exports = <<>>
    /\ blocking = <<>>
    /\ layers = <<>>
    /\ err = "none"
    /\ DataIdle

Next ==
    \/ StateStep
    \/ StateReturn
    \/ ProcessRegion
    \/ YearStep
    \/ ExportIndex
    \/ YearReturn
    \/ RegionReturn

Spec == Init /\ [][Next]_vars

\* The script on an ee service whose getInfo() may throw
NextFault ==
    \/ Next
    \/ YearsFetchFails
    \/ YearFetchFails

SpecFault == Init /\ [][NextFault]_vars

SeqsUpTo(S, n) == UNION {[1..k -> S] : k \in 0..n}

\* processRegion called with any region name of up to MaxNameLen characters,
\* or with 'New York'
NameAlphabet == {"a", " "}
RegionNames  == (SeqsUpTo(NameAlphabet, MaxNameLen) \ {<<>>}) \cup {NewYork}

InitRegion ==
    /\ pc = "region"
    /\ si = Len(stateNames)
    /\ \E name \in RegionNames : pending = <<Region(geometry(northeastStates), name)>>
    /\ region = NoRegion
    /\ yi = 1
    /\ ii = 1
    /\ job = NoJob
    /\ exports = <<>>
    /\ blocking = <<>>
    /\ layers = <<>>
    /\ err = "none"
    /\ DataIdle

NextRegion ==
    \/ ProcessRegion
    \/ YearStep
    \/ ExportIndex
    \/ YearReturn
    \/ RegionReturn

SpecRegion == InitRegion /\ [][NextRegion]_vars

\* The archive query of processRegion over any archive of up to MaxArchive
\* scenes acquired around the ends of the 2021 season or in mid June 2020,
\* just below or at the cloud ceiling, over Vermont or over New Jersey
ArchiveTimes ==
    {fromYMD(2021, 4, 30) + 1, fromYMD(2021, 5, 1), fromYMD(2021, 10, 30) + 1,
     fromYMD(2021, 10, 31), fromYMD(2021, 10, 31) + 1, fromYMD(2021, 11, 1),
     fromYMD(2020, 6, 15)}
ArchiveScenes ==
    [time : ArchiveTimes, cloud : {cloudCeiling - 1, cloudCeiling},
     footprint : {{<<9, 3>>}, {<<6, 0>>}}, band : {1}]
QueryRegions ==
    {r.geometry : r \in UNION {Range(splitState(stateNames[i]).calls) :
                                 i \in 1..Len(stateNames)}}

InitSeason ==
    /\ RunIdle
    /\ archive \in SeqsUpTo(ArchiveScenes, MaxArchive)
    /\ query = NoQuery
    /\ collection = <<>>
    /\ windowSize = smoothingWindow
    /\ smoothed = <<>>
    /\ windows = <<>>
    /\ called = FALSE

LoadStep ==
    /\ query = NoQuery
    /\ \E g \in QueryRegions, k \in 1..Len(years) :
          /\ query' = [geometry |-> g, year |-> years[k]]
          /\ collection' = s2Collection(archive, g, years[k])
    /\ UNCHANGED <<archive, windowSize, smoothed, windows, called>>
    /\ UNCHANGED runVars

SpecSeason == InitSeason /\ [][LoadStep]_vars

\* computeRollingMean over any collection of up to MaxScenes images acquired
\* at half-day instants 0..MaxTime or smoothingWindow, with any window size in
\* 0..MaxWindow or the script's own smoothingWindow
SmoothScenes ==
    [time : (0..MaxTime) \cup {smoothingWindow}, cloud : {0}, footprint : {{}},
     band : 1..MaxBand]
WindowSizes == (0..MaxWindow) \cup {smoothingWindow}

InitSmooth ==
    /\ RunIdle
    /\ archive = <<>>
    /\ query = NoQuery
    /\ collection \in SeqsUpTo(SmoothScenes, MaxScenes)
    /\ windowSize \in WindowSizes
    /\ smoothed = <<>>
    /\ windows = <<>>
    /\ called = FALSE

SmoothStep ==
    /\ ~called
    /\ smoothed' = computeRollingMean(collection, windowSize)
    /\ windows' = [i \in 1..Len(collection) |->
                      windowOf(collection, collection[i], windowSize)]
    /\ called' = TRUE
    /\ UNCHANGED <<archive, query, collection, windowSize>>
    /\ UNCHANGED runVars

\* A date range whose end is not after its start is empty.  The engine may
\* refuse a filterDate over an empty range instead of selecting no image; the
\* mapped function then yields no image at all.
SmoothRejected ==
    /\ ~called
    /\ \E i \in 1..Len(collection) :
          LET halfWindow == halfWindowOf(windowSize)
          IN  advance(collection[i].time, halfWindow)
                 <= advance(collection[i].time, multiply(halfWindow, -1))
    /\ smoothed' = <<>>
    /\ windows' = <<>>
    /\ err' = "EEException"
    /\ called' = TRUE
    /\ UNCHANGED <<archive, query, collection, windowSize>>
    /\ UNCHANGED <<pc, si, pending, region, yi, ii, job, exports, blocking, layers>>

NextSmooth ==
    \/ SmoothStep
    \/ SmoothRejected

SpecSmooth == InitSmooth /\ [][NextSmooth]_vars

----------------------------------------------------------------------------
(* Properties *)

Ended == pc \in {"done", "aborted"}

\* The regions the run is to process, and the ones each state accounts for
FinalRegionNames ==
    {Connecticut, Maine_South, Maine_North, Massachusetts, NewHampshire, RhodeIsland,
     Vermont, New_York_West, New_York_East}

RegionsOf(stateName) ==
    IF stateName = NewYork THEN {New_York_West, New_York_East}
    ELSE IF stateName = Maine THEN {Maine_South, Maine_North}
    ELSE {stateName}

Submissions(r, y, index) ==
    {k \in 1..Len(exports) :
        exports[k].region = r /\ exports[k].year = y /\ exports[k].index = index}

Complete(r) ==
    \A y \in 2016..2024, index \in Range(spectralIndices) :
        Cardinality(Submissions(r, y, index)) = 1

\* C1: when the run has ended, every (final region, year 2016..2024, index)
\* triple has exactly one submitted export unit: 9 x 9 x 8 = 648 submissions,
\* none missing and none repeated.
C1_EveryUnitSubmittedOnce ==
    Ended => /\ \A r \in FinalRegionNames : Complete(r)
             /\ Len(exports) = 648

----------------------------------------------------------------------------
\* The layers processRegion added under a given region name
LayersNamed(name) == {k \in 1..Len(layers) : layers[k].name = name}

StateGeometry(stateName) ==
    geometry(SelectSeq(states, LAMBDA f : f.NAME = stateName))

\* Two halves of a parent split along one axis (1: longitude, 2: latitude) at
\* the midpoint of its bounding box: they cover the parent and share only
\* points of the dividing line
HalvesOf(parent, low, high, axis) ==
    LET lo == Min({p[axis] : p \in parent})
        hi == Max({p[axis] : p \in parent})
    IN  /\ low \cup high = parent
        /\ \A p \in low \cap high : 2 * p[axis] = lo + hi
        /\ \A p \in low : 2 * p[axis] <= lo + hi
        /\ \A p \in high : 2 * p[axis] >= lo + hi

SplitInTwo(stateName, lowName, highName, axis) ==
    /\ Cardinality(LayersNamed(lowName)) = 1
    /\ Cardinality(LayersNamed(highName)) = 1
    /\ \A i \in LayersNamed(lowName), j \in LayersNamed(highName) :
          HalvesOf(StateGeometry(stateName), layers[i].geometry, layers[j].geometry, axis)

KeptWhole(stateName) ==
    /\ Cardinality(LayersNamed(stateName)) = 1
    /\ \A i \in LayersNamed(stateName) : layers[i].geometry = StateGeometry(stateName)

\* C3: when the run has ended, New York has been processed as exactly two
\* regions split east/west at the longitude midpoint and Maine as exactly two
\* split north/south at the latitude midpoint, each pair disjoint off the
\* dividing line and covering the parent; every other state has been processed
\* as exactly one region equal to its geometry; nothing else was processed.
C3_RegionSplitterContract ==
    Ended => /\ SplitInTwo(NewYork, New_York_West, New_York_East, 1)
             /\ SplitInTwo(Maine, Maine_South, Maine_North, 2)
             /\ \A i \in 1..Len(stateNames) :
                   stateNames[i] \notin {NewYork, Maine} => KeptWhole(stateNames[i])
             /\ \A k \in 1..Len(layers) : layers[k].name \in FinalRegionNames

\* The part of C3 that concerns Maine and the unsplit states
RegionSplitterExceptNewYork ==
    Ended => /\ SplitInTwo(Maine, Maine_South, Maine_North, 2)
             /\ \A i \in 1..Len(stateNames) :
                   stateNames[i] \notin {NewYork, Maine} => KeptWhole(stateNames[i])
             /\ \A k \in 1..Len(layers) : layers[k].name \in FinalRegionNames

----------------------------------------------------------------------------
ReplaceAll(s, pattern, replacement) ==
    [i \in 1..Len(s) |-> IF s[i] = pattern THEN replacement ELSE s[i]]

\* The label the naming contract prescribes: every space of the region name
\* becomes an underscore
ContractLabel(index, regionName, year) ==
    Indices_ \o index \o <<"_">> \o ReplaceAll(regionName, " ", "_") \o <<"_">>
        \o NumberToString(year)

Indices_NDVI_New_York_2021 ==
    <<"I","n","d","i","c","e","s","_","N","D","V","I","_",
      "N","e","w","_","Y","o","r","k","_","2","0","2","1">>

\* C4: every submitted label is "Indices_" + index + "_" + the region name with
\* every space replaced by an underscore + "_" + year, and holds no space; the
\* NDVI label of region 'New York' for 2021 is Indices_NDVI_New_York_2021.
C4_ExportLabelFormat ==
    \A k \in 1..Len(exports) :
        LET e == exports[k]
        IN  /\ e.description = ContractLabel(e.index, e.region, e.year)
            /\ " " \notin Range(e.description)
            /\ (e.region = NewYork /\ e.year = 2021 /\ e.index = spectralIndices[1])
                  => e.description = Indices_NDVI_New_York_2021

\* The part of C4 that concerns names with at most one space
LabelFormatOneSpace ==
    \A k \in 1..Len(exports) :
        LET e == exports[k]
        IN  Cardinality({i \in 1..Len(e.region) : e.region[i] = " "}) <= 1
            => /\ e.description = ContractLabel(e.index, e.region, e.year)
               /\ " " \notin Range(e.description)
               /\ (e.region = NewYork /\ e.year = 2021 /\ e.index = spectralIndices[1])
                     => e.description = Indices_NDVI_New_York_2021

----------------------------------------------------------------------------
\* C5: the export units submitted so far carry as many distinct labels as they
\* have distinct (region name, year, index) triples; the region names processed
\* so far, and the nine the script names, stay distinct once sanitized.
C5_ExportNamesUnique ==
    /\ Cardinality({exports[k].description : k \in 1..Len(exports)})
          = Cardinality({<<exports[k].region, exports[k].year, exports[k].index>> :
                            k \in 1..Len(exports)})
    /\ Cardinality({Replace(layers[k].name, " ", "_") : k \in 1..Len(layers)})
          = Cardinality({layers[k].name : k \in 1..Len(layers)})
    /\ Cardinality({Replace(name, " ", "_") : name \in FinalRegionNames}) = 9

C5_Witness ==
    /\ Len(exports) = 504
    /\ \E k \in 1..Len(exports) : exports[k].region = NewHampshire
    /\ \E k \in 1..Len(exports) : exports[k].region = Maine_North

----------------------------------------------------------------------------
\* C6: when an error has ended a region's processing, every region of the
\* other states, the later ones included, has all its export units submitted.
C6_ErrorIsolation ==
    pc = "aborted" =>
        \A r \in FinalRegionNames \ RegionsOf(stateNames[si]) : Complete(r)

----------------------------------------------------------------------------
CallsOf(call) == {k \in 1..Len(blocking) : blocking[k].call = call}

\* C7: every blocking call is the fetch of the year list or of bounding-box
\* coordinates, and none is made inside a year's index loop.
C7_OnlyYearListAndBoundsBlock ==
    \A k \in 1..Len(blocking) :
        /\ blocking[k].call \in {"years.getInfo", "coords.getInfo"}
        /\ blocking[k].at # "index"

\* C7, amended: the blocking calls are years.getInfo(), one per processRegion
\* call, and year.getInfo(), one per export unit inside the index loop; the
\* split step makes none.
C7_BlockingCallsAreGetInfo ==
    /\ \A k \in 1..Len(blocking) :
          \/ blocking[k].call = "years.getInfo" /\ blocking[k].at = "region"
          \/ blocking[k].call = "year.getInfo" /\ blocking[k].at = "index"
    /\ Cardinality(CallsOf("years.getInfo")) = Len(layers)
    /\ Cardinality(CallsOf("year.getInfo")) = Len(exports)

C7_Witness ==
    /\ LayersNamed(Maine_North) # {}
    /\ Len(exports) > 144
    /\ pc = "index"

----------------------------------------------------------------------------
\* C9: the series fed to the smoother for a region and a year y holds exactly
\* the archive scenes that meet the region, lie below the cloud ceiling and
\* were acquired from 1 May y up to the end of 31 October y.
C9_SeasonalRange ==
    query # NoQuery =>
        collection = SelectSeq(archive, LAMBDA s :
                        /\ s.footprint \cap query.geometry # {}
                        /\ s.cloud < 30
                        /\ fromYMD(query.year, 5, 1) <= s.time
                        /\ s.time < fromYMD(query.year, 11, 1))

\* The part of C9 that the query does meet: nothing outside May-October of y,
\* nothing above the ceiling or off the region, and every such scene acquired
\* before 31 October
SeasonalRangeBeforeLastDay ==
    query # NoQuery =>
        /\ \A k \in 1..Len(collection) :
              /\ collection[k].footprint \cap query.geometry # {}
              /\ collection[k].cloud < 30
              /\ fromYMD(query.year, 5, 1) <= collection[k].time
              /\ collection[k].time < fromYMD(query.year, 11, 1)
        /\ \A k \in 1..Len(archive) :
              (/\ archive[k].footprint \cap query.geometry # {}
               /\ archive[k].cloud < 30
               /\ fromYMD(query.year, 5, 1) <= archive[k].time
               /\ archive[k].time < fromYMD(query.year, 10, 31))
                  => archive[k] \in Range(collection)

----------------------------------------------------------------------------
(* Temporal Smoother.  Instants are half days, so a scene lies within W/2   *)
(* days of another when their instants differ by at most W.                *)

\* C2: for a window W > 0, the scenes averaged into the output at date d are
\* exactly the scenes of the series dated within [d - W/2, d + W/2], both ends
\* included.
C2_WindowMembershipInclusive ==
    (called /\ windowSize > 0) =>
        \A i \in 1..Len(collection) :
            windows[i] = SelectSeq(collection, LAMBDA s :
                            /\ collection[i].time - windowSize <= s.time
                            /\ s.time <= collection[i].time + windowSize)

\* C2, amended: the scenes averaged into the output at date d are exactly the
\* scenes of the series dated within [d - W/2, d + W/2): the lower end is
\* included, the upper end is not, and W/2 is not truncated.  For W = 0 that
\* range is empty: no scene is averaged, or the engine refuses the range.
C2_WindowMembershipHalfOpen ==
    called =>
        \/ /\ windowSize = 0
           /\ err = "EEException"
           /\ windows = <<>>
        \/ /\ err = "none"
           /\ Len(windows) = Len(collection)
           /\ \A i \in 1..Len(collection) :
                 windows[i] = SelectSeq(collection, LAMBDA s :
                                 /\ collection[i].time - windowSize <= s.time
                                 /\ s.time < collection[i].time + windowSize)

\* An odd window and two scenes half a day apart: the later one is W/2 past
\* the earlier and is left out of its window, the earlier one is W/2 before
\* the later and is taken into its window
C2_Witness ==
    /\ called
    /\ windowSize = 1
    /\ Len(collection) = 2
    /\ collection[2].time = collection[1].time + 1
    /\ windows[1] = <<collection[1]>>
    /\ windows[2] = collection

\* C8: smoothing a series of one scene, with any window size, returns one
\* scene with the input's band values and acquisition date.
C8_SingleSceneAnyWindow ==
    (called /\ Len(collection) = 1) =>
        smoothed = <<[time |-> collection[1].time, band |-> Number(collection[1].band)]>>

\* C8, amended: smoothing a series of one scene with a window size greater
\* than 0 returns one scene with the input's band values and acquisition date.
C8_SingleScenePositiveWindow ==
    (called /\ Len(collection) = 1 /\ windowSize > 0) =>
        smoothed = <<[time |-> collection[1].time, band |-> Number(collection[1].band)]>>

C8_Witness ==
    /\ called
    /\ Len(collection) = 1
    /\ windowSize = 1
    /\ collection[1].band = MaxBand
    /\ Len(smoothed) = 1

\* C10: with a window size greater than 0, the window built around each scene
\* of the series holds that scene, so no window is empty and every output has
\* bands; an empty series yields an empty result.
C10_WindowHoldsOwnScene ==
    (called /\ windowSize > 0) =>
        /\ Len(smoothed) = Len(collection)
        /\ \A i \in 1..Len(collection) :
              /\ collection[i] \in Range(windows[i])
              /\ smoothed[i].band # NoBands

C10_Witness ==
    /\ called
    /\ windowSize = smoothingWindow
    /\ Len(collection) = MaxScenes
    /\ \E i \in 1..Len(collection) : Len(windows[i]) = 1

====
